---- MODULE Spec2Model ----
(***************************************************************************)
(* hds-rs: the byte-addressed key/value record store (Kv) over its         *)
(* storage backends (borrowed slice, StaticDataStore, InMemoryKvDataStore, *)
(* HeapDataStore), and the fixed-capacity containers Queue<T, N> and       *)
(* Stack<T, N>.                                                            *)
(*                                                                         *)
(* The region is a sequence of bytes; byte address a is element a + 1.     *)
(* Every engine operation is an operator that threads the backend through  *)
(* the reads and writes the code performs, in the code's order, so that a  *)
(* call failing half way leaves the bytes it had already written.          *)
(***************************************************************************)
EXTENDS Naturals, Integers, Sequences, FiniteSets, TLC

VARIABLES store, live, placed, appended, last, io, queue, stack, hist

vars == <<store, live, placed, appended, last, io, queue, stack, hist>>

\* The queue, the stack and the caller's account of their elements.
containers == <<queue, stack, hist>>

-----------------------------------------------------------------------------
(* Bounds of the model *)

\* Inserts stop where the next one would grow the region past this length.
MaxRegion == 32

\* reset is called while the records take at most this many bytes (one record).
MaxResetSize == 10

\* Depth of nested write calls the stack holds before the process aborts.
StackLimit == 6

\* Highest byte address a direct backend request starts at.
MaxAddress == 5

\* Longest direct backend request, in bytes.
MaxLength == 4

\* Largest capacity N a queue or a stack is built with.
MaxCapacity == 3

\* The elements pushed are 1..MaxItem.
MaxItem == 3

-----------------------------------------------------------------------------
(* Program constants *)

SIZE_SZ == 4
AMOUNT_SZ == 4
KEY_SZ == 4
META_SZ == KEY_SZ + SIZE_SZ

U8_MAX == 255

\* A u32 is carried as its four bytes in host order (a Word): the checker's
\* integers are 31 bits wide, and a key hash uses all 32.  from_ne_bytes gives
\* the number of a Word that stands for a size, an amount or an address.
U32_MAX == <<U8_MAX, U8_MAX, U8_MAX, U8_MAX>>

-----------------------------------------------------------------------------
(* Inputs *)

\* Hasher outputs (Hasher::finish, 64 bit, as eight bytes in host order) of
\* the logical keys: two ordinary ones, one whose low 32 bits equal those of
\* the first, and one whose low 32 bits are all set.
Keys == { <<1, 0, 0, 0, 0, 0, 0, 0>>, <<2, 0, 0, 0, 0, 0, 0, 0>>,
          <<1, 0, 0, 0, 1, 0, 0, 0>>,
          <<U8_MAX, U8_MAX, U8_MAX, U8_MAX, 0, 0, 0, 0>> }

\* Values, by their raw bytes (sizes 1 and 2).
Values == {<<7>>, <<9>>, <<7, 9>>}

Sizes == {Len(v) : v \in Values}

\* size_of::<T>() of the types get is asked for.
Types == {0} \cup Sizes

\* The backends a store handle is built over (a handle owns its backend, so
\* never a bare slice): StaticDataStore<SIZE>, InMemoryKvDataStore<SIZE>, and
\* HeapDataStore::with_capacity(capacity).
Backends ==
    { <<"Static", 4>>, <<"Static", 18>>, <<"Static", 27>>, <<"InMemory", 19>>,
      <<"Heap", 0>>, <<"Heap", 4>>, <<"Heap", 8>> }

\* The backends requests are made of directly.
StoreBackends ==
    { <<"Slice", 4>>, <<"Static", 4>>, <<"InMemory", 4>>,
      <<"Heap", 0>>, <<"Heap", 4>> }

\* The bytes a direct write request carries, by length.
Data(len) == [i \in 1..len |-> 7]

-----------------------------------------------------------------------------
(* Backends *)

\* F of the value of v, v being evaluated once (the sequencing of the code's
\* statements: a let binding, or a result matched by ? before it is used).
Bind(v, F(_)) == CHOOSE y \in {F(x) : x \in {v}} : TRUE

Zeros(n) == [i \in 1..n |-> 0]

Ok(n, mem, dst) == [err |-> "None", n |-> n, mem |-> mem, dst |-> dst]
Fail(e, mem) == [err |-> e, n |-> 0, mem |-> mem, dst |-> <<>>]

Overlay(mem, addr, data) ==
    [i \in 1..Len(mem) |->
        IF i > addr /\ i <= addr + Len(data) THEN data[i - addr] ELSE mem[i]]

\* impl KvDataAccess for [u8]
SliceRead(mem, address, len) ==
    LET addr == address
        end == addr + len
    IN  IF end > Len(mem)
        THEN Fail("OutOfMemory", mem)
        ELSE Ok(len, mem, SubSeq(mem, addr + 1, end))

SliceWrite(mem, address, data) ==
    LET addr == address
        end == addr + Len(data)
    IN  IF end > Len(mem)
        THEN Fail("OutOfMemory", mem)
        ELSE Ok(Len(data), Overlay(mem, addr, data), <<>>)

\* impl KvDataAccess for StaticDataStore<SIZE>
StaticRead(mem, address, len) == SliceRead(mem, address, len)

StaticWrite(mem, address, data) == SliceWrite(mem, address, data)

\* impl KvDataAccess for InMemoryKvDataStore<SIZE>
InMemoryRead(mem, address, len) ==
    LET addr == address
        end == addr + len
    IN  IF end >= Len(mem)
        THEN Fail("OutOfMemory", mem)
        ELSE Ok(len, mem, SubSeq(mem, addr + 1, end))

InMemoryWrite(mem, address, data) ==
    LET addr == address
        end == addr + Len(data)
    IN  IF end >= Len(mem)
        THEN Fail("OutOfMemory", mem)
        ELSE Ok(Len(data), Overlay(mem, addr, data), <<>>)

\* impl KvDataAccess for HeapDataStore
HeapRead(mem, address, len) == SliceRead(mem, address, len)

\* write growing once and then writing to the vector, never calling itself
HeapWriteAt_SingleShot(mem, address, data, depth) ==
    Bind(SliceWrite(mem, address, data), LAMBDA w :
        IF w.err = "OutOfMemory"
        THEN SliceWrite(mem \o Zeros(Len(mem)), address, data)
        ELSE w)

\* write passing the request to the vector as read does, never growing it
HeapWriteAt_NeverGrows(mem, address, data, depth) ==
    SliceWrite(mem, address, data)

\* write growing by moving to a fresh zeroed vector of twice the length
\* instead of extending the one it has
RECURSIVE HeapWriteAt_Realloc(_, _, _, _)
HeapWriteAt_Realloc(mem, address, data, depth) ==
    IF depth > StackLimit
    THEN Fail("StackOverflow", mem)
    ELSE Bind(Len(mem), LAMBDA store_size :
         Bind(SliceWrite(mem, address, data), LAMBDA w :
             IF w.err = "OutOfMemory"
             THEN Bind(Zeros(2 * store_size), LAMBDA fresh :
                      HeapWriteAt_Realloc(fresh, address, data, depth + 1))
             ELSE w))

\* HeapDataStore::write at nesting depth `depth`: on OutOfMemory the vector is
\* extended by its own length in zero bytes and write calls itself.  A stack
\* that holds StackLimit nested calls overflows on the next one.
RECURSIVE HeapWriteAt(_, _, _, _)
HeapWriteAt(mem, address, data, depth) ==
    IF depth > StackLimit
    THEN Fail("StackOverflow", mem)
    ELSE Bind(Len(mem), LAMBDA store_size :
         Bind(SliceWrite(mem, address, data), LAMBDA w :
             IF w.err = "OutOfMemory"
             THEN Bind(mem \o Zeros(store_size), LAMBDA extended :
                      HeapWriteAt(extended, address, data, depth + 1))
             ELSE w))

HeapWrite(mem, address, data) == HeapWriteAt(mem, address, data, 1)

\* KvDataAccess::read / write of the backend the store handle owns.
StoreRead(s, address, len) ==
    CASE s.kind = "Slice"    -> SliceRead(s.mem, address, len)
      [] s.kind = "Static"   -> StaticRead(s.mem, address, len)
      [] s.kind = "InMemory" -> InMemoryRead(s.mem, address, len)
      [] s.kind = "Heap"     -> HeapRead(s.mem, address, len)

StoreWrite(s, address, data) ==
    CASE s.kind = "Slice"    -> SliceWrite(s.mem, address, data)
      [] s.kind = "Static"   -> StaticWrite(s.mem, address, data)
      [] s.kind = "InMemory" -> InMemoryWrite(s.mem, address, data)
      [] s.kind = "Heap"     -> HeapWrite(s.mem, address, data)

-----------------------------------------------------------------------------
(* Engine helpers.  A helper's result is [err, s, ...]: the error ("None"  *)
(* when it succeeded), the backend as the helper left it, and its value.   *)

With(s, mem) == [kind |-> s.kind, mem |-> mem]

\* u32::to_ne_bytes / u32::from_ne_bytes on a little-endian host
to_ne_bytes(value) ==
    << value % 256, (value \div 256) % 256,
       (value \div 65536) % 256, (value \div 16777216) % 256 >>

from_ne_bytes(v) == v[1] + 256 * v[2] + 65536 * v[3] + 16777216 * v[4]

\* Kv::read_all: accumulate backend reads until dst is full
RECURSIVE read_all_from(_, _, _, _)
read_all_from(s, address, len, dst) ==
    IF Len(dst) < len
    THEN Bind(StoreRead(s, address + Len(dst), len - Len(dst)), LAMBDA r :
             IF r.err # "None"
             THEN [err |-> r.err, dst |-> dst]
             ELSE Bind(dst \o SubSeq(r.dst, 1, r.n), LAMBDA read :
                      read_all_from(s, address, len, read)))
    ELSE [err |-> "None", dst |-> dst]

read_all(s, address, len) == read_all_from(s, address, len, <<>>)

\* Kv::write_all: accumulate backend writes until data is written
RECURSIVE write_all_from(_, _, _, _)
write_all_from(s, address, data, written_len) ==
    IF written_len < Len(data)
    THEN Bind(StoreWrite(s, address + written_len,
                         SubSeq(data, written_len + 1, Len(data))), LAMBDA w :
         Bind(With(s, w.mem), LAMBDA written :
             IF w.err # "None"
             THEN [err |-> w.err, s |-> written]
             ELSE write_all_from(written, address, data, written_len + w.n)))
    ELSE [err |-> "None", s |-> s]

write_all(s, address, data) == write_all_from(s, address, data, 0)

\* Kv::read_u32 (the value as a Word)
read_u32(s, address) ==
    Bind(read_all(s, address, 4), LAMBDA r :
        IF r.err # "None"
        THEN [err |-> r.err, val |-> to_ne_bytes(0)]
        ELSE [err |-> "None", val |-> r.dst])

\* Kv::write_u32 (the value as a Word)
write_u32(s, address, value) == write_all(s, address, value)

\* Kv::size, Kv::amount
size(s) == read_u32(s, 0)

amount(s) == read_u32(s, 4)

\* Kv::hash_key: the hasher's 64-bit output cast to u32 keeps the low 32 bits
hash_key(t) == SubSeq(t, 1, 4)

NoAddr == -1

\* Kv::find: the scan over the first amount() records
RECURSIVE find_from(_, _, _, _, _)
find_from(s, key, amt, addr, idx) ==
    IF idx < amt
    THEN Bind(read_u32(s, addr), LAMBDA found_key :
             IF found_key.err # "None"
             THEN [err |-> found_key.err, addr |-> NoAddr]
             ELSE
         Bind(read_u32(s, addr + KEY_SZ), LAMBDA sz :
             IF sz.err # "None" THEN [err |-> sz.err, addr |-> NoAddr]
             ELSE IF key = found_key.val THEN [err |-> "None", addr |-> addr]
             ELSE
         Bind(addr + META_SZ + from_ne_bytes(sz.val), LAMBDA next :
             find_from(s, key, amt, next, idx + 1))))
    ELSE [err |-> "None", addr |-> NoAddr]

\* find with the scan stopping one record early (idx < amount - 1)
find_OffByOne(s, key) ==
    Bind(amount(s), LAMBDA amt :
        IF amt.err # "None"
        THEN [err |-> amt.err, addr |-> NoAddr]
        ELSE find_from(s, key, from_ne_bytes(amt.val) - 1, SIZE_SZ + AMOUNT_SZ, 0))

find(s, key) ==
    Bind(amount(s), LAMBDA amt :
        IF amt.err # "None"
        THEN [err |-> amt.err, addr |-> NoAddr]
        ELSE find_from(s, key, from_ne_bytes(amt.val), SIZE_SZ + AMOUNT_SZ, 0))

\* size_inc called to count the value's bytes but not the record's key and size
size_inc_NoMeta(s, inc) ==
    Bind(size(s), LAMBDA old_size :
        IF old_size.err # "None"
        THEN [err |-> old_size.err, s |-> s]
        ELSE write_u32(s, 0,
                 to_ne_bytes(from_ne_bytes(old_size.val) + inc - META_SZ)))

\* Kv::size_inc
size_inc(s, inc) ==
    Bind(size(s), LAMBDA old_size :
        IF old_size.err # "None"
        THEN [err |-> old_size.err, s |-> s]
        ELSE write_u32(s, 0, to_ne_bytes(from_ne_bytes(old_size.val) + inc)))

\* amount_inc storing the increment instead of adding it to the amount
amount_inc_Overwrites(s, inc) ==
    Bind(amount(s), LAMBDA old_size :
        IF old_size.err # "None"
        THEN [err |-> old_size.err, s |-> s]
        ELSE write_u32(s, 4, to_ne_bytes(inc)))

\* Kv::amount_inc
amount_inc(s, inc) ==
    Bind(amount(s), LAMBDA old_size :
        IF old_size.err # "None"
        THEN [err |-> old_size.err, s |-> s]
        ELSE write_u32(s, 4, to_ne_bytes(from_ne_bytes(old_size.val) + inc)))

-----------------------------------------------------------------------------
(* Engine operations.  A result is [res, s, found, out]: what the call     *)
(* returned ("Ok", a KvError, or "StackOverflow" when the process aborted  *)
(* inside the call), the backend afterwards, and the value returned.       *)

StoreErr(e) == IF e = "OutOfMemory" THEN "Store(OutOfMemory)" ELSE e

Ret(res, s) == [res |-> res, s |-> s, found |-> FALSE, out |-> <<>>]

RetErr(e, s) == Ret(StoreErr(e), s)

\* insert without the search for a record of the same key
insert_NoConflictCheck(s, k, v) ==
    Bind(hash_key(k), LAMBDA key :
    Bind(Len(v), LAMBDA sz :
    Bind(size(s), LAMBDA cur :
        IF cur.err # "None" THEN RetErr(cur.err, s)
        ELSE
    Bind(from_ne_bytes(cur.val) + META_SZ, LAMBDA addr :
    Bind(write_u32(s, addr, key), LAMBDA w1 :
        IF w1.err # "None" THEN RetErr(w1.err, w1.s)
        ELSE
    Bind(write_u32(w1.s, addr + KEY_SZ, to_ne_bytes(sz)), LAMBDA w2 :
        IF w2.err # "None" THEN RetErr(w2.err, w2.s)
        ELSE
    Bind(write_all(w2.s, addr + META_SZ, v), LAMBDA w3 :
        IF w3.err # "None" THEN RetErr(w3.err, w3.s)
        ELSE
    Bind(amount_inc(w3.s, 1), LAMBDA a :
        IF a.err # "None" THEN RetErr(a.err, a.s)
        ELSE
    Bind(size_inc(a.s, META_SZ + sz), LAMBDA z :
        IF z.err # "None" THEN RetErr(z.err, z.s)
        ELSE Ret("Ok", z.s))))))))))

\* insert counting the record in the header before its value is written
insert_AmountFirst(s, k, v) ==
    Bind(hash_key(k), LAMBDA key :
    Bind(find(s, key), LAMBDA f :
        IF f.err # "None" THEN RetErr(f.err, s)
        ELSE IF f.addr # NoAddr THEN Ret("Conflict", s)
        ELSE
    Bind(size(s), LAMBDA cur :
        IF cur.err # "None" THEN RetErr(cur.err, s)
        ELSE
    Bind(from_ne_bytes(cur.val) + META_SZ, LAMBDA addr :
    Bind(amount_inc(s, 1), LAMBDA a :
        IF a.err # "None" THEN RetErr(a.err, a.s)
        ELSE
    Bind(write_u32(a.s, addr, key), LAMBDA w1 :
        IF w1.err # "None" THEN RetErr(w1.err, w1.s)
        ELSE
    Bind(write_u32(w1.s, addr + KEY_SZ, to_ne_bytes(Len(v))), LAMBDA w2 :
        IF w2.err # "None" THEN RetErr(w2.err, w2.s)
        ELSE
    Bind(write_all(w2.s, addr + META_SZ, v), LAMBDA w3 :
        IF w3.err # "None" THEN RetErr(w3.err, w3.s)
        ELSE
    Bind(size_inc(w3.s, META_SZ + Len(v)), LAMBDA z :
        IF z.err # "None" THEN RetErr(z.err, z.s)
        ELSE Ret("Ok", z.s))))))))))

\* Kv::insert
insert(s, k, v) ==
    Bind(hash_key(k), LAMBDA key :
    Bind(find(s, key), LAMBDA f :
        IF f.err # "None" THEN RetErr(f.err, s)
        ELSE IF f.addr # NoAddr THEN Ret("Conflict", s)
        ELSE
    Bind(Len(v), LAMBDA sz :
    Bind(size(s), LAMBDA cur :
        IF cur.err # "None" THEN RetErr(cur.err, s)
        ELSE
    Bind(from_ne_bytes(cur.val) + META_SZ, LAMBDA addr :
    Bind(write_u32(s, addr, key), LAMBDA w1 :
        IF w1.err # "None" THEN RetErr(w1.err, w1.s)
        ELSE
    Bind(write_u32(w1.s, addr + KEY_SZ, to_ne_bytes(sz)), LAMBDA w2 :
        IF w2.err # "None" THEN RetErr(w2.err, w2.s)
        ELSE
    Bind(write_all(w2.s, addr + META_SZ, v), LAMBDA w3 :
        IF w3.err # "None" THEN RetErr(w3.err, w3.s)
        ELSE
    Bind(amount_inc(w3.s, 1), LAMBDA a :
        IF a.err # "None" THEN RetErr(a.err, a.s)
        ELSE
    Bind(size_inc(a.s, META_SZ + sz), LAMBDA z :
        IF z.err # "None" THEN RetErr(z.err, z.s)
        ELSE Ret("Ok", z.s)))))))))))

\* update writing the value from the record's size field on
update_OverSizeField(s, k, v) ==
    Bind(hash_key(k), LAMBDA key :
    Bind(find(s, key), LAMBDA f :
        IF f.err # "None" THEN RetErr(f.err, s)
        ELSE IF f.addr = NoAddr THEN Ret("NotFound", s)
        ELSE
    Bind(f.addr, LAMBDA found_addr :
    Bind(read_u32(s, found_addr + KEY_SZ), LAMBDA found_size :
        IF found_size.err # "None" THEN RetErr(found_size.err, s)
        ELSE
    Bind(Len(v), LAMBDA sz :
        IF from_ne_bytes(found_size.val) # sz THEN Ret("SizeMismatch", s)
        ELSE
    Bind(write_all(s, found_addr + KEY_SZ, v), LAMBDA w :
        IF w.err # "None" THEN RetErr(w.err, w.s) ELSE Ret("Ok", w.s)))))))

\* update without the comparison of the stored size with the value's
update_NoSizeCheck(s, k, v) ==
    Bind(hash_key(k), LAMBDA key :
    Bind(find(s, key), LAMBDA f :
        IF f.err # "None" THEN RetErr(f.err, s)
        ELSE IF f.addr = NoAddr THEN Ret("NotFound", s)
        ELSE
    Bind(write_all(s, f.addr + META_SZ, v), LAMBDA w :
        IF w.err # "None" THEN RetErr(w.err, w.s) ELSE Ret("Ok", w.s))))

\* Kv::update
update(s, k, v) ==
    Bind(hash_key(k), LAMBDA key :
    Bind(find(s, key), LAMBDA f :
        IF f.err # "None" THEN RetErr(f.err, s)
        ELSE IF f.addr = NoAddr THEN Ret("NotFound", s)
        ELSE
    Bind(f.addr, LAMBDA found_addr :
    Bind(read_u32(s, found_addr + KEY_SZ), LAMBDA found_size :
        IF found_size.err # "None" THEN RetErr(found_size.err, s)
        ELSE
    Bind(Len(v), LAMBDA sz :
        IF from_ne_bytes(found_size.val) # sz THEN Ret("SizeMismatch", s)
        ELSE
    Bind(write_all(s, found_addr + META_SZ, v), LAMBDA w :
        IF w.err # "None" THEN RetErr(w.err, w.s) ELSE Ret("Ok", w.s)))))))

\* get failing with NotFound where the key is absent, as update and forget do
get_AbsentFails(s, k, sz) ==
    Bind(hash_key(k), LAMBDA key :
    Bind(find(s, key), LAMBDA f :
        IF f.err # "None" THEN RetErr(f.err, s)
        ELSE IF f.addr = NoAddr THEN Ret("NotFound", s)
        ELSE
    Bind(f.addr, LAMBDA found_addr :
    Bind(read_u32(s, found_addr + KEY_SZ), LAMBDA found_size :
        IF found_size.err # "None" THEN RetErr(found_size.err, s)
        ELSE IF from_ne_bytes(found_size.val) # sz THEN Ret("SizeMismatch", s)
        ELSE
    Bind(read_all(s, found_addr + META_SZ, sz), LAMBDA r :
        IF r.err # "None" THEN RetErr(r.err, s)
        ELSE [res |-> "Ok", s |-> s, found |-> TRUE, out |-> r.dst])))))

\* get without the comparison of the stored size with size_of::<T>()
get_NoSizeCheck(s, k, sz) ==
    Bind(hash_key(k), LAMBDA key :
    Bind(find(s, key), LAMBDA f :
        IF f.err # "None" THEN RetErr(f.err, s)
        ELSE IF f.addr = NoAddr THEN Ret("Ok", s)
        ELSE
    Bind(read_all(s, f.addr + META_SZ, sz), LAMBDA r :
        IF r.err # "None" THEN RetErr(r.err, s)
        ELSE [res |-> "Ok", s |-> s, found |-> TRUE, out |-> r.dst])))

\* Kv::get::<T> with size_of::<T>() = sz
get(s, k, sz) ==
    Bind(hash_key(k), LAMBDA key :
    Bind(find(s, key), LAMBDA f :
        IF f.err # "None" THEN RetErr(f.err, s)
        ELSE IF f.addr = NoAddr THEN Ret("Ok", s)
        ELSE
    Bind(f.addr, LAMBDA found_addr :
    Bind(read_u32(s, found_addr + KEY_SZ), LAMBDA found_size :
        IF found_size.err # "None" THEN RetErr(found_size.err, s)
        ELSE IF from_ne_bytes(found_size.val) # sz THEN Ret("SizeMismatch", s)
        ELSE
    Bind(read_all(s, found_addr + META_SZ, sz), LAMBDA r :
        IF r.err # "None" THEN RetErr(r.err, s)
        ELSE [res |-> "Ok", s |-> s, found |-> TRUE, out |-> r.dst])))))

\* The data loop writing zero bytes instead of 0xFF
RECURSIVE forget_from_Zeroes(_, _, _)
forget_from_Zeroes(s, ptr, end) ==
    IF ptr < end
    THEN Bind(write_all(s, ptr, <<0>>), LAMBDA w :
             IF w.err # "None" THEN w
             ELSE forget_from_Zeroes(w.s, ptr + 1, end))
    ELSE [err |-> "None", s |-> s]

\* The data loop running one byte too far (ptr <= end)
RECURSIVE forget_from_OneTooFar(_, _, _)
forget_from_OneTooFar(s, ptr, end) ==
    IF ptr <= end
    THEN Bind(write_all(s, ptr, <<U8_MAX>>), LAMBDA w :
             IF w.err # "None" THEN w
             ELSE forget_from_OneTooFar(w.s, ptr + 1, end))
    ELSE [err |-> "None", s |-> s]

\* The data loop of Kv::forget: one write_all of a single 0xFF per byte
RECURSIVE forget_from(_, _, _)
forget_from(s, ptr, end) ==
    IF ptr < end
    THEN Bind(write_all(s, ptr, <<U8_MAX>>), LAMBDA w :
             IF w.err # "None" THEN w ELSE forget_from(w.s, ptr + 1, end))
    ELSE [err |-> "None", s |-> s]

\* forget wiping the data and leaving the key field
forget_KeepsKey(s, k) ==
    Bind(hash_key(k), LAMBDA key :
    Bind(find(s, key), LAMBDA f :
        IF f.err # "None" THEN RetErr(f.err, s)
        ELSE IF f.addr = NoAddr THEN Ret("NotFound", s)
        ELSE
    Bind(f.addr, LAMBDA addr :
    Bind(read_u32(s, addr + KEY_SZ), LAMBDA sz :
        IF sz.err # "None" THEN RetErr(sz.err, s)
        ELSE
    Bind(addr + META_SZ + from_ne_bytes(sz.val), LAMBDA end :
    Bind(forget_from(s, addr + META_SZ, end), LAMBDA w2 :
        IF w2.err # "None" THEN RetErr(w2.err, w2.s) ELSE Ret("Ok", w2.s)))))))

\* Kv::forget
forget(s, k) ==
    Bind(hash_key(k), LAMBDA key :
    Bind(find(s, key), LAMBDA f :
        IF f.err # "None" THEN RetErr(f.err, s)
        ELSE IF f.addr = NoAddr THEN Ret("NotFound", s)
        ELSE
    Bind(f.addr, LAMBDA addr :
    Bind(read_u32(s, addr + KEY_SZ), LAMBDA sz :
        IF sz.err # "None" THEN RetErr(sz.err, s)
        ELSE
    Bind(write_u32(s, addr, U32_MAX), LAMBDA w1 :
        IF w1.err # "None" THEN RetErr(w1.err, w1.s)
        ELSE
    Bind(addr + META_SZ + from_ne_bytes(sz.val), LAMBDA end :
    Bind(forget_from(w1.s, addr + META_SZ, end), LAMBDA w2 :
        IF w2.err # "None" THEN RetErr(w2.err, w2.s) ELSE Ret("Ok", w2.s))))))))

\* Kv::exists
exists(s, k) ==
    Bind(hash_key(k), LAMBDA key :
    Bind(find(s, key), LAMBDA f :
        IF f.err # "None" THEN RetErr(f.err, s)
        ELSE [res |-> "Ok", s |-> s, found |-> f.addr # NoAddr, out |-> <<>>]))

\* reset zeroing the size field only
reset_SizeOnly(s) ==
    Bind(write_u32(s, 0, to_ne_bytes(0)), LAMBDA w1 :
        IF w1.err # "None" THEN RetErr(w1.err, w1.s) ELSE Ret("Ok", w1.s))

\* Kv::reset
reset(s) ==
    Bind(write_u32(s, 0, to_ne_bytes(0)), LAMBDA w1 :
        IF w1.err # "None" THEN RetErr(w1.err, w1.s)
        ELSE
    Bind(write_u32(w1.s, 4, to_ne_bytes(0)), LAMBDA w2 :
        IF w2.err # "None" THEN RetErr(w2.err, w2.s) ELSE Ret("Ok", w2.s)))

-----------------------------------------------------------------------------
(* The containers: Queue<T, N> and Stack<T, N>.                            *)

\* A slot of the buffer that holds no element (MaybeUninit::uninit()); the
\* elements are the numbers from 1 on.
Uninit == 0

\* Option<T>
None == <<>>
Some(x) == <<x>>

\* No queue and no stack have been constructed.
NoQueue == [N |-> 0, buf |-> <<>>, size |-> 0, r |-> 0, w |-> 0]
NoStack == [N |-> 0, buf |-> <<>>, size |-> 0]

\* The elements (T) and the capacities (N) of the containers.
Items == 1..MaxItem
QueueCapacities == 1..MaxCapacity
StackCapacities == 0..MaxCapacity

\* MaybeUninit::assume_init / assume_init_ref: the element a slot holds; of a
\* slot that holds none the read is undefined and may give any element.
assume_init(slot) == IF slot = Uninit THEN Items ELSE {slot}

\* buf[i] = x, i counting from 0
SetSlot(buf, i, x) == [buf EXCEPT ![i + 1] = x]

\* Queue::new
Queue_new(N) ==
    [N |-> N, buf |-> [i \in 1..N |-> Uninit], size |-> 0, r |-> 0, w |-> 0]

Queue_is_full(q) == q.size = q.N

Queue_is_empty(q) == q.size = 0

Queue_next_w(q) == (q.w + 1) % q.N

Queue_next_r(q) == (q.r + 1) % q.N

Queue_inc_size(q) == IF q.size < q.N THEN [q EXCEPT !.size = q.size + 1] ELSE q

\* dec_size leaving the size as it is
Queue_dec_size_Keeps(q) == q

Queue_dec_size(q) == IF q.size > 0 THEN [q EXCEPT !.size = q.size - 1] ELSE q

\* The results of a call, [q, ret]: the queue afterwards and what the call
\* returned.  A call has more than one result only where it reads a slot that
\* holds no element.

\* push_overwrite moving the write index and never the read index
Queue_push_overwrite_KeepsR(q, item) ==
    IF Queue_is_full(q)
    THEN { LET q2 == [q EXCEPT !.buf = SetSlot(q.buf, q.w, item)]
           IN  [q |-> [q2 EXCEPT !.w = Queue_next_w(q2)], ret |-> Some(x)]
           : x \in assume_init(q.buf[q.r + 1]) }
    ELSE { LET q1 == Queue_inc_size(q)
               q2 == [q1 EXCEPT !.buf = SetSlot(q1.buf, q1.w, item)]
           IN  [q |-> [q2 EXCEPT !.w = Queue_next_w(q2)], ret |-> None] }

\* Queue::push_overwrite
Queue_push_overwrite(q, item) ==
    IF Queue_is_full(q)
    THEN { LET q1 == [q EXCEPT !.buf = SetSlot(q.buf, q.r, Uninit)]
               q2 == [q1 EXCEPT !.r = Queue_next_r(q1)]
               q3 == [q2 EXCEPT !.buf = SetSlot(q2.buf, q2.w, item)]
           IN  [q |-> [q3 EXCEPT !.w = Queue_next_w(q3)], ret |-> Some(x)]
           : x \in assume_init(q.buf[q.r + 1]) }
    ELSE { LET q1 == Queue_inc_size(q)
               q2 == [q1 EXCEPT !.buf = SetSlot(q1.buf, q1.w, item)]
           IN  [q |-> [q2 EXCEPT !.w = Queue_next_w(q2)], ret |-> None] }

\* push overwriting the oldest element of a full queue instead of failing
Queue_push_NoFullCheck(q, item) ==
    {[q |-> o.q, ret |-> "Ok"] : o \in Queue_push_overwrite(q, item)}

\* Queue::push
Queue_push(q, item) ==
    IF Queue_is_full(q)
    THEN {[q |-> q, ret |-> "Full"]}
    ELSE {[q |-> o.q, ret |-> "Ok"] : o \in Queue_push_overwrite(q, item)}

\* Queue::pop
Queue_pop(q) ==
    IF Queue_is_empty(q)
    THEN {[q |-> q, ret |-> None]}
    ELSE { LET q1 == Queue_dec_size(q)
               q2 == [q1 EXCEPT !.buf = SetSlot(q1.buf, q1.r, Uninit)]
           IN  [q |-> [q2 EXCEPT !.r = Queue_next_r(q2)], ret |-> Some(x)]
           : x \in assume_init(q.buf[q.r + 1]) }

\* Queue::peek
Queue_peek(q) ==
    IF Queue_is_empty(q)
    THEN {[q |-> q, ret |-> None]}
    ELSE {[q |-> q, ret |-> Some(x)] : x \in assume_init(q.buf[q.r + 1])}

\* Stack::new
Stack_new(N) == [N |-> N, buf |-> [i \in 1..N |-> Uninit], size |-> 0]

Stack_is_full(s) == s.size = s.N

Stack_is_empty(s) == s.size = 0

\* The results of a call, [s, ret], as for the queue.

\* Stack::push
Stack_push(s, item) ==
    IF Stack_is_full(s)
    THEN {[s |-> s, ret |-> "Full"]}
    ELSE {[s |-> [s EXCEPT !.buf = SetSlot(s.buf, s.size, item),
                           !.size = s.size + 1],
           ret |-> "Ok"]}

\* pop taking the element at the bottom of the stack
Stack_pop_Bottom(s) ==
    IF Stack_is_empty(s)
    THEN {[s |-> s, ret |-> None]}
    ELSE { [s |-> [s EXCEPT !.size = s.size - 1,
                            !.buf = SetSlot(s.buf, s.size - 1, Uninit)],
            ret |-> Some(x)]
           : x \in assume_init(s.buf[1]) }

\* Stack::pop
Stack_pop(s) ==
    IF Stack_is_empty(s)
    THEN {[s |-> s, ret |-> None]}
    ELSE { [s |-> [s EXCEPT !.size = s.size - 1,
                            !.buf = SetSlot(s.buf, s.size - 1, Uninit)],
            ret |-> Some(x)]
           : x \in assume_init(s.buf[s.size]) }

\* Stack::peek
Stack_peek(s) ==
    IF Stack_is_empty(s)
    THEN {[s |-> s, ret |-> None]}
    ELSE {[s |-> s, ret |-> Some(x)] : x \in assume_init(s.buf[s.size])}

\* Stack::as_slice: buf[0..size] read as elements
Stack_as_slice(s) ==
    { [s |-> s, ret |-> slice] :
        slice \in { e \in [1..s.size -> Items] :
                       \A i \in 1..s.size : e[i] \in assume_init(s.buf[i]) } }

-----------------------------------------------------------------------------
(* The store handle as a state machine.                                    *)
(*   store : the backend the handle owns, [kind, mem]                      *)
(*   live  : for each key hash the caller holds as inserted and neither    *)
(*           forgotten nor reset since, the value last stored under it     *)
(*   placed : for each such key hash, the address its record was          *)
(*           inserted at                                                   *)
(*   appended : the value sizes of the inserts that succeeded since        *)
(*           construction or the last successful reset, in order           *)
(*   last  : the last engine call and what it returned                     *)
(*   io    : the last request made of the backend directly                 *)

Call(op, key, r) == [op |-> op, key |-> key, res |-> r.res]

NoCall == [op |-> "new", key |-> <<>>, res |-> "Ok"]

Io(op, address, len, r) ==
    [op |-> op, address |-> address, len |-> len, err |-> r.err, n |-> r.n,
     dst |-> r.dst]

NoIo == [op |-> "new", address |-> 0, len |-> 0, err |-> "None", n |-> 0,
         dst |-> <<>>]

Put(f, h, v) == [x \in DOMAIN f \cup {h} |-> IF x = h THEN v ELSE f[x]]

Drop(f, h) == [x \in DOMAIN f \ {h} |-> f[x]]

Empty == [x \in {} |-> <<>>]

\* Bytes the records take, as the header tells it (0 while it cannot be read).
Used(s) ==
    LET z == size(s) IN IF z.err = "None" THEN from_ne_bytes(z.val) ELSE 0

\* The process is running: no call has aborted it.
Running == last.res # "StackOverflow"

\* StaticDataStore::new, InMemoryKvDataStore::new or
\* HeapDataStore::with_capacity, handed to Kv::with_hasher_and_store.
Init ==
    /\ store \in {[kind |-> b[1], mem |-> Zeros(b[2])] : b \in Backends}
    /\ live = Empty
    /\ placed = Empty
    /\ appended = <<>>
    /\ last = NoCall
    /\ io = NoIo
    /\ queue = NoQueue
    /\ stack = NoStack
    /\ hist = <<>>

Insert(k, v) ==
    \E r \in {insert(store, k, v)} :
        /\ Running
        /\ Len(r.s.mem) <= MaxRegion
        /\ store' = r.s
        /\ live' = IF r.res = "Ok" THEN Put(live, hash_key(k), v) ELSE live
        /\ placed' = IF r.res = "Ok"
                     THEN Put(placed, hash_key(k), SIZE_SZ + AMOUNT_SZ + Used(store))
                     ELSE placed
        /\ appended' = IF r.res = "Ok" THEN Append(appended, Len(v)) ELSE appended
        /\ last' = Call("insert", hash_key(k), r)
        /\ UNCHANGED <<io, containers>>

Update(k, v) ==
    \E r \in {update(store, k, v)} :
        /\ Running
        /\ store' = r.s
        /\ live' = IF r.res = "Ok" /\ hash_key(k) \in DOMAIN live
                   THEN Put(live, hash_key(k), v) ELSE live
        /\ last' = Call("update", hash_key(k), r)
        /\ UNCHANGED <<placed, appended, io, containers>>

Get(k, t) ==
    \E r \in {get(store, k, t)} :
        /\ Running
        /\ store' = r.s
        /\ last' = Call("get", hash_key(k), r)
        /\ UNCHANGED <<live, placed, appended, io, containers>>

Forget(k) ==
    \E r \in {forget(store, k)} :
        /\ Running
        /\ store' = r.s
        /\ live' = IF r.res = "Ok" THEN Drop(live, hash_key(k)) ELSE live
        /\ placed' = IF r.res = "Ok" THEN Drop(placed, hash_key(k)) ELSE placed
        /\ last' = Call("forget", hash_key(k), r)
        /\ UNCHANGED <<appended, io, containers>>

Exists(k) ==
    \E r \in {exists(store, k)} :
        /\ Running
        /\ store' = r.s
        /\ last' = Call("exists", hash_key(k), r)
        /\ UNCHANGED <<live, placed, appended, io, containers>>

Reset ==
    \E r \in {reset(store)} :
        /\ Running
        /\ Used(store) <= MaxResetSize
        /\ store' = r.s
        /\ live' = IF r.res = "Ok" THEN Empty ELSE live
        /\ placed' = IF r.res = "Ok" THEN Empty ELSE placed
        /\ appended' = IF r.res = "Ok" THEN <<>> ELSE appended
        /\ last' = Call("reset", <<>>, r)
        /\ UNCHANGED <<io, containers>>

Next ==
    \/ \E k \in Keys, v \in Values : Insert(k, v)
    \/ \E k \in Keys, v \in Values : Update(k, v)
    \/ \E k \in Keys, t \in Types : Get(k, t)
    \/ \E k \in Keys : Forget(k)
    \/ \E k \in Keys : Exists(k)
    \/ Reset

Spec == Init /\ [][Next]_vars

-----------------------------------------------------------------------------
(* Properties of the store handle (specification Spec)                     *)

\* The keys whose hash the caller holds as live.
LiveKeys == {k \in Keys : hash_key(k) \in DOMAIN live}

\* The keys whose hash is not the tombstone sentinel.
PlainKeys == {k \in Keys : hash_key(k) # U32_MAX}

\* get::<T>(k) returns Ok(Some(v)), T being of v's size.
GetsValue(s, k, v) ==
    LET r == get(s, k, Len(v)) IN r.res = "Ok" /\ r.found /\ r.out = v

\* get::<T>(k) returns Ok(None).
GetsNone(s, k, t) ==
    LET r == get(s, k, t) IN r.res = "Ok" /\ ~r.found

\* exists(k) returns Ok(false).
Absent(s, k) ==
    LET r == exists(s, k) IN r.res = "Ok" /\ ~r.found

\* C1 (Conflict exclusivity): while a key is live, insert under it, with a
\* value of any size, fails with Conflict and leaves every byte of the region
\* (header and records) as it was.
C1_ConflictExclusivity ==
    \A k \in LiveKeys, v \in Values :
        LET r == insert(store, k, v)
        IN  r.res = "Conflict" /\ r.s = store

\* An insert under a live key has just failed with Conflict.
C1_Witness ==
    /\ last.op = "insert"
    /\ last.res = "Conflict"
    /\ last.key \in DOMAIN live

\* C2 (Round trip), as claimed, for every key: a live key's get, asked with a
\* type of the stored size, returns the bytes last stored under it, whatever
\* was done to the other keys since.
C2_RoundTrip ==
    \A k \in LiveKeys : GetsValue(store, k, live[hash_key(k)])

\* C2, amended: the round trip holds for every key whose hash is not the
\* tombstone sentinel 0xFFFFFFFF.
C2_RoundTripPlainKeys ==
    \A k \in LiveKeys \cap PlainKeys : GetsValue(store, k, live[hash_key(k)])

\* A get of a live key has just returned, with another key's record in the
\* region before it turned into a tombstone.
C2_Witness ==
    /\ last.op = "get"
    /\ last.res = "Ok"
    /\ last.key \in DOMAIN live
    /\ last.key # U32_MAX
    /\ read_u32(store, SIZE_SZ + AMOUNT_SZ).val = U32_MAX
    /\ find(store, last.key).addr > SIZE_SZ + AMOUNT_SZ

\* forget(k) succeeds, exists(k) is then false and a second forget(k) fails
\* with NotFound.
ForgetIsFinal(s, k) ==
    LET f == forget(s, k)
    IN  /\ f.res = "Ok"
        /\ Absent(f.s, k)
        /\ forget(f.s, k).res = "NotFound"

\* C3 (Tombstone finality), as claimed, whatever the key's hash is: a live
\* key's forget succeeds, after which exists is false and a second forget
\* fails with NotFound.
C3_TombstoneFinality == \A k \in LiveKeys : ForgetIsFinal(store, k)

\* C3, amended: tombstone finality holds for every key whose hash is not the
\* sentinel 0xFFFFFFFF.
C3_TombstoneFinalityPlainKeys ==
    \A k \in LiveKeys \cap PlainKeys : ForgetIsFinal(store, k)

\* A forget of a key with an ordinary hash has just succeeded, and the key
\* is gone.
C3_Witness ==
    /\ last.op = "forget"
    /\ last.res = "Ok"
    /\ last.key # U32_MAX
    /\ \A k \in Keys : hash_key(k) = last.key => Absent(store, k)

\* update(k, v2), v2 being of another size than the stored value, fails with
\* SizeMismatch and writes nothing, and get still returns the stored value.
UpdateKeepsSize(s, k, v1) ==
    \A v2 \in Values :
        Len(v2) # Len(v1) =>
            LET u == update(s, k, v2)
            IN  /\ u.res = "SizeMismatch"
                /\ u.s = s
                /\ GetsValue(u.s, k, v1)

\* C4 (Size-changing update rejected), as claimed, for every live key.
C4_SizeChangingUpdate ==
    \A k \in LiveKeys : UpdateKeepsSize(store, k, live[hash_key(k)])

\* C4, amended: a size-changing update is rejected for every live key whose
\* hash is not the sentinel 0xFFFFFFFF.
C4_SizeChangingUpdatePlainKeys ==
    \A k \in LiveKeys \cap PlainKeys : UpdateKeepsSize(store, k, live[hash_key(k)])

\* An update of a live key has just failed with SizeMismatch.
C4_Witness ==
    /\ last.op = "update"
    /\ last.res = "SizeMismatch"
    /\ last.key \in DOMAIN live
    /\ last.key # U32_MAX

\* The bytes of the region from address `from` on.
BytesFrom(s, from) == SubSeq(s.mem, from + 1, Len(s.mem))

\* What a successful reset leaves: an empty header, no key visible, and a
\* second insert of every key that was live, with its value, at address 8.
ResetClears(s, r) ==
    /\ size(r.s).err = "None" /\ from_ne_bytes(size(r.s).val) = 0
    /\ amount(r.s).err = "None" /\ from_ne_bytes(amount(r.s).val) = 0
    /\ \A k \in Keys : Absent(r.s, k) /\ \A t \in Types : GetsNone(r.s, k, t)
    /\ \A k \in LiveKeys :
           LET i == insert(r.s, k, live[hash_key(k)])
           IN  /\ i.res = "Ok"
               /\ find(i.s, hash_key(k)).addr = SIZE_SZ + AMOUNT_SZ
               /\ GetsValue(i.s, k, live[hash_key(k)])

\* reset leaves the region's length and every byte from address 8 on.
ResetKeepsBytes(s, r) ==
    /\ Len(r.s.mem) = Len(s.mem)
    /\ BytesFrom(r.s, SIZE_SZ + AMOUNT_SZ) = BytesFrom(s, SIZE_SZ + AMOUNT_SZ)

\* C5 (Reset clears visibility, not bytes), as claimed, for every reset that
\* succeeds: afterwards size and amount are 0, no key exists or is got, the
\* capacity and the bytes from address 8 on are unchanged, and a key that was
\* live is inserted again at address 8.
C5_ResetClears ==
    [][ last'.op = "reset" /\ last'.res = "Ok" =>
            /\ ResetClears(store, [s |-> store'])
            /\ ResetKeepsBytes(store, [s |-> store']) ]_vars

\* C5, amended: the same, the capacity and the bytes being unchanged where the
\* region already holds the 8-byte header (a growable region shorter than the
\* header is grown by reset to hold it).
C5_ResetClearsWithinHeader ==
    LET r == reset(store)
    IN  r.res = "Ok" =>
            /\ ResetClears(store, r)
            /\ Len(store.mem) >= SIZE_SZ + AMOUNT_SZ => ResetKeepsBytes(store, r)

\* A reset has just succeeded over a region whose records' bytes are still
\* there.
C5_Witness ==
    /\ last.op = "reset"
    /\ last.res = "Ok"
    /\ Used(store) = 0
    /\ \E i \in 1..Len(store.mem) : i > SIZE_SZ + AMOUNT_SZ /\ store.mem[i] # 0

\* What the caller observes of the store: size, amount, and for every key
\* whether it exists and what get returns for every type size.
Observed(s) ==
    << size(s), amount(s),
       [k \in Keys |-> exists(s, k).found],
       [k \in Keys |-> [t \in Types |->
            LET r == get(s, k, t) IN <<r.res, r.found, r.out>>]] >>

KvErrors == {"Conflict", "NotFound", "SizeMismatch", "Store(OutOfMemory)"}

\* A call that returned an error left what the caller observes as it was.
FailedKeeps(s, r) == r.res \in KvErrors /\ r.s # s => Observed(r.s) = Observed(s)

\* C8 (Failed operations keep the store valid): an insert, update, get or
\* forget that returns an error leaves size, amount, and the live keys with
\* their sizes and bytes as they were; an insert that ran out of space after
\* writing part of the record leaves its key absent.
C8_FailedOperationsKeepStore ==
    /\ \A k \in Keys, v \in Values :
           /\ FailedKeeps(store, insert(store, k, v))
           /\ FailedKeeps(store, update(store, k, v))
           /\ LET r == insert(store, k, v)
              IN  r.res = "Store(OutOfMemory)" /\ amount(store).err = "None"
                      => Absent(r.s, k)
    /\ \A k \in Keys, t \in Types : FailedKeeps(store, get(store, k, t))
    /\ \A k \in Keys : FailedKeeps(store, forget(store, k))

\* An insert has just run out of space after writing the key of its record
\* at the address the next record goes to.
C8_Witness ==
    /\ last.op = "insert"
    /\ last.res = "Store(OutOfMemory)"
    /\ last.key # to_ne_bytes(0)
    /\ read_u32(store, SIZE_SZ + AMOUNT_SZ + Used(store)).err = "None"
    /\ read_u32(store, SIZE_SZ + AMOUNT_SZ + Used(store)).val = last.key
    /\ \A k \in Keys : hash_key(k) = last.key => Absent(store, k)

\* C9 (Every engine operation terminates), as claimed: every call returns to
\* its caller, on every backend.
C9_EveryCallReturns == last.res # "StackOverflow"

\* What follows a successful forget(k): insert(k, v2) succeeds where the
\* region has the space, get then returns v2, and the header counts the
\* tombstone and the new record.
ForgetFreesKey(s, k) ==
    LET f == forget(s, k)
    IN  /\ f.res = "Ok"
        /\ \A v2 \in Values :
               LET i == insert(f.s, k, v2)
                   fits == SIZE_SZ + AMOUNT_SZ + Used(s) + META_SZ + Len(v2)
                               <= Len(s.mem)
               IN  /\ i.res \in {"Ok", "Store(OutOfMemory)"}
                   /\ s.kind = "Heap" \/ (s.kind # "InMemory" /\ fits)
                          => i.res = "Ok"
                   /\ i.res = "Ok" =>
                          /\ GetsValue(i.s, k, v2)
                          /\ from_ne_bytes(amount(i.s).val)
                                 = from_ne_bytes(amount(s).val) + 1
                          /\ from_ne_bytes(size(i.s).val)
                                 = from_ne_bytes(size(s).val) + META_SZ + Len(v2)

\* C10 (Forget frees the key but not the space), as claimed, for every live
\* key.
C10_ForgetFreesKey == \A k \in LiveKeys : ForgetFreesKey(store, k)

\* C10, amended: the same for every live key whose hash is not the sentinel
\* 0xFFFFFFFF.
C10_ForgetFreesKeyPlainKeys ==
    \A k \in LiveKeys \cap PlainKeys : ForgetFreesKey(store, k)

\* A key with an ordinary hash has just been inserted again behind the
\* tombstone of a record of another size.
C10_Witness ==
    /\ last.op = "insert"
    /\ last.res = "Ok"
    /\ last.key # U32_MAX
    /\ read_u32(store, SIZE_SZ + AMOUNT_SZ).val = U32_MAX
    /\ from_ne_bytes(amount(store).val) = 2
    /\ from_ne_bytes(read_u32(store, SIZE_SZ + AMOUNT_SZ + KEY_SZ).val)
           # Len(live[last.key])
    /\ find(store, last.key).addr
           = SIZE_SZ + AMOUNT_SZ + META_SZ
               + from_ne_bytes(read_u32(store, SIZE_SZ + AMOUNT_SZ + KEY_SZ).val)

\* The region holds the header: size() and amount() can be read.
HeaderReadable(s) == size(s).err = "None" /\ amount(s).err = "None"

\* The keys the caller does not hold as live.
AbsentKeys == Keys \ LiveKeys

\* What the calls on an absent key return: update and forget fail with
\* NotFound, get returns Ok(None) for every type, exists returns Ok(false),
\* and none of them changes a byte of the region.
AbsentKeyCalls(s, k) ==
    /\ \A v \in Values :
           LET u == update(s, k, v) IN u.res = "NotFound" /\ u.s = s
    /\ LET f == forget(s, k) IN f.res = "NotFound" /\ f.s = s
    /\ \A t \in Types : GetsNone(s, k, t) /\ get(s, k, t).s = s
    /\ Absent(s, k) /\ exists(s, k).s = s

\* C11 (Operations on an absent key), as claimed, in every reachable state
\* and for every key that is not live: update and forget fail with NotFound,
\* get returns Ok(None), exists returns false, and no byte changes.
C11_AbsentKey == \A k \in AbsentKeys : AbsentKeyCalls(store, k)

\* C11, amended: the same in every state whose region holds the header, for
\* every key that is not live and whose hash is not the sentinel 0xFFFFFFFF.
C11_AbsentKeyPlainKeys ==
    HeaderReadable(store) =>
        \A k \in AbsentKeys \cap PlainKeys : AbsentKeyCalls(store, k)

\* A forget of a key that is not live has just failed with NotFound, the
\* first record of the region being a tombstone.
C11_Witness ==
    /\ last.op = "forget"
    /\ last.res = "NotFound"
    /\ last.key \notin DOMAIN live
    /\ last.key # U32_MAX
    /\ from_ne_bytes(amount(store).val) >= 1
    /\ read_u32(store, SIZE_SZ + AMOUNT_SZ).val = U32_MAX

\* get::<T>(k) on a key stored with value v: SizeMismatch where
\* size_of::<T>() differs from v's size, Some(v) where it equals it, and no
\* byte of the region written.
GetGuardsSize(s, k, v) ==
    \A t \in Types :
        LET r == get(s, k, t)
        IN  /\ r.s = s
            /\ IF t = Len(v)
               THEN r.res = "Ok" /\ r.found /\ r.out = v
               ELSE r.res = "SizeMismatch"

\* C12 (get size guard), as claimed, for every live key: get fails with
\* SizeMismatch for a type of another size than the stored one, returns the
\* stored bytes for a type of that size, and writes nothing to the region.
C12_GetSizeGuard ==
    \A k \in LiveKeys : GetGuardsSize(store, k, live[hash_key(k)])

\* C12, amended: the same for every live key whose hash is not the sentinel
\* 0xFFFFFFFF.
C12_GetSizeGuardPlainKeys ==
    \A k \in LiveKeys \cap PlainKeys : GetGuardsSize(store, k, live[hash_key(k)])

\* A get of a live key, asked with a type of another size than the two bytes
\* stored, has just failed with SizeMismatch.
C12_Witness ==
    /\ last.op = "get"
    /\ last.res = "SizeMismatch"
    /\ last.key \in DOMAIN live
    /\ last.key # U32_MAX
    /\ Len(live[last.key]) = 2

\* The bytes that records with values of these sizes take.
RECURSIVE RecordsBytes(_)
RecordsBytes(sizes) ==
    IF sizes = <<>> THEN 0
    ELSE META_SZ + Head(sizes) + RecordsBytes(Tail(sizes))

\* amount() returns the number of these records and size() their bytes.
HeaderCounts(s, sizes) ==
    /\ amount(s).err = "None" /\ from_ne_bytes(amount(s).val) = Len(sizes)
    /\ size(s).err = "None" /\ from_ne_bytes(size(s).val) = RecordsBytes(sizes)

\* The calls that are neither insert nor reset.
OtherCalls == {"update", "get", "forget", "exists"}

\* What a call does to the header: a successful insert adds 1 to amount and
\* 8 + the value's size to size, update, get, forget and exists leave both,
\* and nothing but reset makes either smaller.
HeaderStep(s, t, op, res, sizes) ==
    /\ op = "insert" /\ res = "Ok" =>
           /\ from_ne_bytes(amount(t).val) = from_ne_bytes(amount(s).val) + 1
           /\ from_ne_bytes(size(t).val)
                  = from_ne_bytes(size(s).val) + META_SZ + sizes[Len(sizes)]
    /\ op \in OtherCalls => amount(t) = amount(s) /\ size(t) = size(s)
    /\ op # "reset" =>
           /\ from_ne_bytes(amount(t).val) >= from_ne_bytes(amount(s).val)
           /\ from_ne_bytes(size(t).val) >= from_ne_bytes(size(s).val)

\* C17 (Header accounting invariant), as claimed, in every reachable state:
\* amount() is the number of inserts that succeeded since construction or the
\* last reset and size() is the sum of 8 + size over them; a successful insert
\* adds 1 and 8 + sizeof(value), the other calls but reset change neither.
C17_HeaderAccounting ==
    [][ /\ HeaderCounts(store, appended)
        /\ HeaderCounts(store', appended')
        /\ HeaderStep(store, store', last'.op, last'.res, appended') ]_vars

\* C17, amended: the same in every reachable state whose region holds the
\* 8-byte header, that is where size() and amount() can be read.
C17_HeaderAccountingReadable ==
    [][ /\ HeaderReadable(store) => HeaderCounts(store, appended)
        /\ HeaderReadable(store') => HeaderCounts(store', appended')
        /\ HeaderReadable(store) =>
               /\ last'.res # "StackOverflow" => HeaderReadable(store')
               /\ HeaderStep(store, store', last'.op, last'.res, appended') ]_vars

\* A second insert has just succeeded behind a tombstone, and the header
\* counts both records.
C17_Witness ==
    /\ last.op = "insert"
    /\ last.res = "Ok"
    /\ Len(appended) = 2
    /\ appended[1] # appended[2]
    /\ read_u32(store, SIZE_SZ + AMOUNT_SZ).val = U32_MAX
    /\ from_ne_bytes(amount(store).val) = 2
    /\ from_ne_bytes(size(store).val) = RecordsBytes(appended)

\* The address a scan is at after stepping over n records from addr, by the
\* size fields it reads (NoAddr where a size field cannot be read).
RECURSIVE scan_from(_, _, _)
scan_from(s, addr, n) ==
    IF n = 0 THEN addr
    ELSE LET sz == read_u32(s, addr + KEY_SZ)
         IN  IF sz.err # "None" THEN NoAddr
             ELSE scan_from(s, addr + META_SZ + from_ne_bytes(sz.val), n - 1)

\* The address, the key field and the size field of the i-th record.
RecordAddr(s, i) == scan_from(s, SIZE_SZ + AMOUNT_SZ, i - 1)

RecordKey(s, i) == read_u32(s, RecordAddr(s, i))

RecordSize(s, i) == read_u32(s, RecordAddr(s, i) + KEY_SZ)

\* The number of records a scan visits (none where amount cannot be read).
Visited(s) ==
    LET a == amount(s) IN IF a.err = "None" THEN from_ne_bytes(a.val) ELSE 0

\* C18 (Record chain invariant): in every reachable state the i-th record
\* appended begins at 8 plus the sum of 8 + size over the records before it
\* and its size field is the size it was written with, also after updates
\* and forgets; a scan that steps over all amount() records ends exactly at
\* 8 + size(), and that is the address a successful insert writes its record
\* at.
C18_RecordChain ==
    [][ /\ \A i \in 1..Len(appended) :
               /\ RecordAddr(store, i)
                      = SIZE_SZ + AMOUNT_SZ + RecordsBytes(SubSeq(appended, 1, i - 1))
               /\ RecordSize(store, i).err = "None"
               /\ from_ne_bytes(RecordSize(store, i).val) = appended[i]
        /\ Visited(store) = Len(appended)
        /\ HeaderReadable(store) =>
               scan_from(store, SIZE_SZ + AMOUNT_SZ, Visited(store))
                   = SIZE_SZ + AMOUNT_SZ + from_ne_bytes(size(store).val)
        /\ last'.op = "insert" /\ last'.res = "Ok" =>
               /\ RecordAddr(store', Len(appended'))
                      = SIZE_SZ + AMOUNT_SZ + from_ne_bytes(size(store).val)
               /\ RecordKey(store', Len(appended')).val = last'.key
        /\ last'.op \in OtherCalls =>
               \A i \in 1..Len(appended) :
                   RecordSize(store', i) = RecordSize(store, i) ]_vars

\* An update has just succeeded on the second of two records of different
\* sizes, the first one being a tombstone.
C18_Witness ==
    /\ last.op = "update"
    /\ last.res = "Ok"
    /\ Len(appended) = 2
    /\ appended[1] # appended[2]
    /\ RecordKey(store, 1).val = U32_MAX
    /\ RecordKey(store, 2).val = last.key
    /\ last.key # U32_MAX

\* C19 (Live key uniqueness): in every reachable state no two of the first
\* amount() records that are not tombstones (key field 0xFFFFFFFF) have the
\* same key field.
C19_LiveKeyUnique ==
    \A i, j \in 1..Visited(store) :
        /\ RecordKey(store, i).err = "None"
        /\ i < j /\ RecordKey(store, i).val = RecordKey(store, j).val
               => RecordKey(store, i).val = U32_MAX

\* An insert under the key of the first of two live records of different keys
\* has just failed with Conflict.
C19_Witness ==
    /\ last.op = "insert"
    /\ last.res = "Conflict"
    /\ Visited(store) = 2
    /\ RecordKey(store, 1).val = last.key
    /\ RecordKey(store, 1).val # U32_MAX
    /\ RecordKey(store, 2).val # U32_MAX
    /\ RecordKey(store, 2).val # RecordKey(store, 1).val

\* The data bytes of the record at addr are all 0xFF, as forget leaves them
\* (no value holds a 0xFF byte).
Wiped(s, addr) ==
    LET sz == read_u32(s, addr + KEY_SZ)
    IN  /\ sz.err = "None"
        /\ \A a \in (addr + META_SZ)..(addr + META_SZ + from_ne_bytes(sz.val) - 1) :
               a < Len(s.mem) /\ s.mem[a + 1] = U8_MAX

\* The scan for k's hash finds nothing or a live record: what it finds is
\* held as live by the caller and is not wiped, so that exists is true, get
\* returns a value, update succeeds and insert reports a Conflict only for a
\* live key.
FindsLiveOnly(s, k) ==
    LET f == find(s, hash_key(k))
    IN  /\ f.err = "None" /\ f.addr # NoAddr =>
               hash_key(k) \in DOMAIN live /\ ~Wiped(s, f.addr)
        /\ exists(s, k).found => hash_key(k) \in DOMAIN live
        /\ \A t \in Types : get(s, k, t).found => hash_key(k) \in DOMAIN live
        /\ \A v \in Values :
               /\ update(s, k, v).res = "Ok" => hash_key(k) \in DOMAIN live
               /\ insert(s, k, v).res = "Conflict" => hash_key(k) \in DOMAIN live

\* C20 (The scan never matches a tombstone), as claimed, for every target
\* hash: find returns no address or the address of a live record.
C20_ScanSkipsTombstones == \A k \in Keys : FindsLiveOnly(store, k)

\* C20, amended: the same for every target hash but the sentinel 0xFFFFFFFF.
C20_ScanSkipsTombstonesPlainKeys == \A k \in PlainKeys : FindsLiveOnly(store, k)

\* The scan for a forgotten key has just stepped over its wiped record and
\* found nothing: an update of it failed with NotFound.
C20_Witness ==
    /\ last.op = "update"
    /\ last.res = "NotFound"
    /\ last.key # U32_MAX
    /\ last.key \notin DOMAIN live
    /\ Visited(store) >= 1
    /\ RecordKey(store, 1).val = U32_MAX
    /\ Wiped(store, SIZE_SZ + AMOUNT_SZ)

\* What get returns for k, for every type size.
Gets(s, k) ==
    [t \in Types |-> LET r == get(s, k, t) IN <<r.res, r.found, r.out>>]

\* What a successful forget does to the region s, t being the region
\* afterwards and addr the address of the key's record: the record's key field
\* is 0xFFFFFFFF and its data bytes are 0xFF, its size field and the header
\* are as they were, and so is every byte outside its key field and its data.
ForgetEffect(s, t, addr) ==
    LET sz == from_ne_bytes(read_u32(s, addr + KEY_SZ).val)
        data == (addr + META_SZ)..(addr + META_SZ + sz - 1)
    IN  /\ read_u32(t, addr).val = U32_MAX
        /\ \A a \in data : t.mem[a + 1] = U8_MAX
        /\ read_u32(t, addr + KEY_SZ) = read_u32(s, addr + KEY_SZ)
        /\ size(t) = size(s) /\ amount(t) = amount(s)
        /\ Len(t.mem) = Len(s.mem)
        /\ \A a \in 0..(Len(s.mem) - 1) :
               a \notin data /\ a \notin addr..(addr + KEY_SZ - 1)
                   => t.mem[a + 1] = s.mem[a + 1]

\* The keys among ks that are live according to held, other than those of
\* hash `key`, return from t the values held for them, as they did from s.
OthersKeep(s, t, key, ks, held) ==
    \A k \in ks :
        hash_key(k) # key /\ hash_key(k) \in DOMAIN held =>
            /\ Gets(t, k) = Gets(s, k)
            /\ GetsValue(t, k, held[hash_key(k)])

\* C21 (Effect of forget), as claimed, for every key: a successful forget
\* sets the key field of the key's record to 0xFFFFFFFF and its data bytes to
\* 0xFF, leaves its size field, the header and every byte of every other
\* record, and every other live key still returns its value.
C21_ForgetEffect ==
    [][ last'.op = "forget" /\ last'.res = "Ok" =>
            /\ last'.key \in DOMAIN live
            /\ ForgetEffect(store, store', placed[last'.key])
            /\ OthersKeep(store, store', last'.key, Keys, live') ]_vars

\* C21, amended: the same for a key whose hash is not the sentinel
\* 0xFFFFFFFF, the other live keys that still return their values being those
\* whose hash is not the sentinel either.
C21_ForgetEffectPlainKeys ==
    [][ last'.op = "forget" /\ last'.res = "Ok" /\ last'.key # U32_MAX =>
            /\ last'.key \in DOMAIN live
            /\ ForgetEffect(store, store', placed[last'.key])
            /\ OthersKeep(store, store', last'.key, PlainKeys, live') ]_vars

\* A forget of the first of two records has just succeeded, the key of the
\* second being live still.
C21_Witness ==
    /\ last.op = "forget"
    /\ last.res = "Ok"
    /\ last.key # U32_MAX
    /\ Len(appended) = 2
    /\ RecordKey(store, 1).val = U32_MAX
    /\ Wiped(store, RecordAddr(store, 1))
    /\ RecordKey(store, 2).val # U32_MAX
    /\ RecordKey(store, 2).val \in DOMAIN live

\* What a successful update with the value v does to the region s, t being
\* the region afterwards and addr the address of the key's record: the
\* record's data bytes are v, its key and size fields and the header are as
\* they were, and so is every byte outside its data.
UpdateEffect(s, t, addr, v) ==
    LET data == (addr + META_SZ)..(addr + META_SZ + Len(v) - 1)
    IN  /\ \A a \in data : t.mem[a + 1] = v[a - addr - META_SZ + 1]
        /\ read_u32(t, addr) = read_u32(s, addr)
        /\ read_u32(t, addr + KEY_SZ) = read_u32(s, addr + KEY_SZ)
        /\ size(t) = size(s) /\ amount(t) = amount(s)
        /\ Len(t.mem) = Len(s.mem)
        /\ \A a \in 0..(Len(s.mem) - 1) :
               a \notin data => t.mem[a + 1] = s.mem[a + 1]

\* The update that has just returned Ok was of a live key whose record
\* holds a value of the new value's size.
UpdatedLive ==
    /\ last'.op = "update" /\ last'.res = "Ok"
    /\ last'.key \in DOMAIN live
    /\ from_ne_bytes(read_u32(store, placed[last'.key] + KEY_SZ).val)
           = Len(live'[last'.key])

\* C22 (Effect of update), as claimed, for every key: a successful update of
\* a live key with a value of the stored size writes the value over the data
\* bytes of the key's record and nothing else, and get then returns it.
C22_UpdateEffect ==
    [][ UpdatedLive =>
            /\ UpdateEffect(store, store', placed[last'.key], live'[last'.key])
            /\ \A k \in Keys :
                   hash_key(k) = last'.key =>
                       GetsValue(store', k, live'[last'.key]) ]_vars

\* C22, amended: the same for every key whose hash is not the sentinel
\* 0xFFFFFFFF.
C22_UpdateEffectPlainKeys ==
    [][ UpdatedLive /\ last'.key # U32_MAX =>
            /\ UpdateEffect(store, store', placed[last'.key], live'[last'.key])
            /\ \A k \in Keys :
                   hash_key(k) = last'.key =>
                       GetsValue(store', k, live'[last'.key]) ]_vars

\* An update has just written another value over the second of two live
\* records.
C22_Witness ==
    /\ last.op = "update"
    /\ last.res = "Ok"
    /\ last.key # U32_MAX
    /\ last.key \in DOMAIN live
    /\ live[last.key] = <<9>>
    /\ Len(appended) = 2
    /\ placed[last.key] = RecordAddr(store, 2)
    /\ RecordKey(store, 1).val \in DOMAIN live
    /\ RecordKey(store, 1).val # last.key

\* The handle is over a growable backend that holds the header.
Growable(s) == s.kind = "Heap" /\ Len(s.mem) >= SIZE_SZ + AMOUNT_SZ

\* What a call returns when the backend lacks the space, or when the call
\* does not return.
OutOfSpace == {"Store(OutOfMemory)", "StackOverflow"}

\* No call on s runs out of space: the header is read, the scan, get, update,
\* forget, exists and reset return without a store error, insert returns Ok
\* or Conflict, and it returns Ok for the keys among ks that are not live.
NeverOutOfSpace(s, ks) ==
    /\ HeaderReadable(s)
    /\ reset(s).res = "Ok"
    /\ \A k \in Keys :
           /\ find(s, hash_key(k)).err = "None"
           /\ forget(s, k).res \notin OutOfSpace
           /\ exists(s, k).res = "Ok"
           /\ \A t \in Types : get(s, k, t).res \notin OutOfSpace
           /\ \A v \in Values :
                  /\ update(s, k, v).res \notin OutOfSpace
                  /\ insert(s, k, v).res \in {"Ok", "Conflict"}
                  /\ k \in ks \ LiveKeys => insert(s, k, v).res = "Ok"

\* C23 (A store over the growable backend never runs out of space), as
\* claimed, for every key: over a HeapDataStore of 8 bytes or more no call
\* returns Store(OutOfMemory), every read stays within the region, and insert
\* of a key that is not live succeeds.
C23_NeverOutOfSpace ==
    Growable(store) => last.res \notin OutOfSpace /\ NeverOutOfSpace(store, Keys)

\* C23, amended: the same, the keys whose insert always succeeds while they
\* are not live being those whose hash is not the sentinel 0xFFFFFFFF.
C23_NeverOutOfSpacePlainKeys ==
    Growable(store) =>
        last.res \notin OutOfSpace /\ NeverOutOfSpace(store, PlainKeys)

\* An insert has just succeeded over a HeapDataStore seeded at 8 bytes that
\* it doubled to 32 to hold its second record.
C23_Witness ==
    /\ last.op = "insert"
    /\ last.res = "Ok"
    /\ store.kind = "Heap"
    /\ Len(store.mem) = 32
    /\ Len(appended) = 2
    /\ SIZE_SZ + AMOUNT_SZ + RecordsBytes(appended) > 16

-----------------------------------------------------------------------------
(* The backends on their own: read and write requests made of a backend    *)
(* directly, at any address and of any length.                             *)

StoreInit ==
    /\ store \in {[kind |-> b[1], mem |-> Zeros(b[2])] : b \in StoreBackends}
    /\ live = Empty
    /\ placed = Empty
    /\ appended = <<>>
    /\ last = NoCall
    /\ io = NoIo
    /\ queue = NoQueue
    /\ stack = NoStack
    /\ hist = <<>>

\* No request has aborted the process.
IoRunning == io.err # "StackOverflow"

BackendRead(address, len) ==
    \E r \in {StoreRead(store, address, len)} :
        /\ IoRunning
        /\ io' = Io("read", address, len, r)
        /\ UNCHANGED <<store, live, placed, appended, last, containers>>

BackendWrite(address, len) ==
    \E r \in {StoreWrite(store, address, Data(len))} :
        /\ IoRunning
        /\ store' = With(store, r.mem)
        /\ io' = Io("write", address, len, r)
        /\ UNCHANGED <<live, placed, appended, last, containers>>

StoreNext ==
    \/ \E address \in 0..MaxAddress, len \in 0..MaxLength : BackendRead(address, len)
    \/ \E address \in 0..MaxAddress, len \in 0..MaxLength : BackendWrite(address, len)

SpecStore == StoreInit /\ [][StoreNext]_vars

-----------------------------------------------------------------------------
(* Properties of the backends (specification SpecStore)                    *)

Requests == (0..MaxAddress) \X (0..MaxLength)

Targets(address, len, a) == a >= address /\ a < address + len

\* C13 (Growth preserves data and reads never grow): a write on the growable
\* backend leaves the region at least as long as it was; every byte the
\* region had keeps its value at its address unless the write targets it, and
\* every byte the growth appended is zero unless the write targets it.  A read
\* on the growable backend leaves the region as it was, and fails with
\* OutOfMemory where its range ends past the region's length.
C13_GrowthPreservesData ==
    [][ store.kind = "Heap" =>
            /\ io'.op = "write" =>
                   /\ Len(store'.mem) >= Len(store.mem)
                   /\ \A a \in 0..(Len(store'.mem) - 1) :
                          ~Targets(io'.address, io'.len, a) =>
                              store'.mem[a + 1]
                                  = IF a < Len(store.mem) THEN store.mem[a + 1] ELSE 0
            /\ io'.op = "read" =>
                   /\ store' = store
                   /\ io'.address + io'.len > Len(store.mem) =>
                          io'.err = "OutOfMemory" ]_vars

\* A write has just grown the region seeded at capacity 4 twice, to 16 bytes,
\* and the byte written at address 0 before the growth is still there.
C13_Witness ==
    /\ store.kind = "Heap"
    /\ io.op = "write"
    /\ io.err = "None"
    /\ io.address > 0
    /\ io.address + io.len > 8
    /\ Len(store.mem) = 16
    /\ store.mem[1] = 7

FixedKinds == {"Slice", "Static", "InMemory"}

\* C7 (Fixed/borrowed backend boundary), as claimed: on a fixed or borrowed
\* region of length L, a read or write ending exactly at L succeeds and
\* transfers its full length, and one ending at L + 1 fails with OutOfMemory
\* and leaves the region unchanged.
C7_FixedBoundary ==
    [][ store.kind \in FixedKinds /\ io'.op \in {"read", "write"} /\ io'.len > 0 =>
            /\ io'.address + io'.len = Len(store.mem) =>
                   io'.err = "None" /\ io'.n = io'.len
            /\ io'.address + io'.len = Len(store.mem) + 1 =>
                   io'.err = "OutOfMemory" /\ store' = store ]_vars

-----------------------------------------------------------------------------
(* The queue as a state machine.                                           *)
(*   queue : the Queue<T, N>: its capacity, buffer, size and indices       *)
(*   hist  : the elements the caller holds as queued, oldest first         *)
(*   last  : the last call, its argument and what it returned              *)

\* No store has been constructed.
NoStore == [kind |-> "None", mem |-> <<>>]

Returned(op, item, ret) == [op |-> op, item |-> item, ret |-> ret]

QueueInit ==
    /\ queue \in {Queue_new(N) : N \in QueueCapacities}
    /\ hist = <<>>
    /\ last = Returned("new", 0, None)
    /\ store = NoStore
    /\ live = Empty
    /\ placed = Empty
    /\ appended = <<>>
    /\ io = NoIo
    /\ stack = NoStack

Push(item) ==
    \E o \in Queue_push(queue, item) :
        /\ queue' = o.q
        /\ hist' = IF o.ret = "Ok" THEN Append(hist, item) ELSE hist
        /\ last' = Returned("push", item, o.ret)
        /\ UNCHANGED <<store, live, placed, appended, io, stack>>

PushOverwrite(item) ==
    \E o \in Queue_push_overwrite(queue, item) :
        /\ queue' = o.q
        /\ hist' = IF Len(hist) = queue.N
                   THEN Append(Tail(hist), item)
                   ELSE Append(hist, item)
        /\ last' = Returned("push_overwrite", item, o.ret)
        /\ UNCHANGED <<store, live, placed, appended, io, stack>>

Pop ==
    \E o \in Queue_pop(queue) :
        /\ queue' = o.q
        /\ hist' = IF hist = <<>> THEN hist ELSE Tail(hist)
        /\ last' = Returned("pop", 0, o.ret)
        /\ UNCHANGED <<store, live, placed, appended, io, stack>>

Peek ==
    \E o \in Queue_peek(queue) :
        /\ queue' = o.q
        /\ last' = Returned("peek", 0, o.ret)
        /\ UNCHANGED <<hist, store, live, placed, appended, io, stack>>

QueueNext ==
    \/ \E item \in Items : Push(item)
    \/ \E item \in Items : PushOverwrite(item)
    \/ Pop
    \/ Peek

SpecQueue == QueueInit /\ [][QueueNext]_vars

-----------------------------------------------------------------------------
(* Properties of the queue (specification SpecQueue)                       *)

\* The element at the front of the caller's account, as an Option.
Oldest == IF hist = <<>> THEN None ELSE Some(Head(hist))

\* The elements the queue holds, from the read index on, wrapping.
QueueContents(q) == [i \in 1..q.size |-> q.buf[((q.r + i - 1) % q.N) + 1]]

\* C14 (Queue is FIFO with reject-when-full push): pop returns the oldest of
\* the elements whose push succeeded and that were not taken yet, None when
\* there is none; peek returns the same element and leaves the queue as it
\* is; push succeeds while fewer than N elements are held, and on a queue
\* holding N elements it returns Err(Full) and leaves the buffer, the size and
\* the read and write indices as they were.
C14_QueueFifo ==
    [][ /\ last'.op = "pop" => last'.ret = Oldest
        /\ last'.op = "peek" => last'.ret = Oldest /\ queue' = queue
        /\ last'.op = "push" =>
               IF Len(hist) = queue.N
               THEN last'.ret = "Full" /\ queue' = queue
               ELSE last'.ret = "Ok" /\ queue'.size = queue.size + 1 ]_vars

\* A push has just been rejected by a full queue of capacity 2 or more whose
\* indices have wrapped.
C14_Witness ==
    /\ last.op = "push"
    /\ last.ret = "Full"
    /\ queue.N >= 2
    /\ queue.r > 0
    /\ hist[1] # hist[2]

\* C15 (Queue overwrite-oldest push): push_overwrite(x) on a queue holding N
\* elements returns the oldest of them, and the queue then holds the others
\* followed by x, its size still N; on a queue holding fewer it returns None
\* and leaves the queue as a successful push(x) leaves it.  After any mix of
\* push, push_overwrite and pop the queue holds the surviving elements in
\* insertion order, and pop returns the first of them.
C15_OverwriteOldest ==
    [][ /\ last'.op = "push_overwrite" =>
               IF Len(hist) = queue.N
               THEN /\ last'.ret = Oldest
                    /\ queue'.size = queue.N
                    /\ QueueContents(queue') = Append(Tail(hist), last'.item)
               ELSE /\ last'.ret = None
                    /\ [q |-> queue', ret |-> "Ok"] \in Queue_push(queue, last'.item)
        /\ QueueContents(queue') = hist'
        /\ last'.op = "pop" /\ hist # <<>> =>
               last'.ret = Some(Head(hist)) /\ QueueContents(queue') = Tail(hist) ]_vars

\* A push_overwrite on a full queue of capacity 2 or more has just returned
\* the oldest element, which is not the one it was given.
C15_Witness ==
    /\ last.op = "push_overwrite"
    /\ last.ret # None
    /\ last.ret # Some(last.item)
    /\ queue.N >= 2
    /\ queue.size = queue.N
    /\ queue.r > 0

\* The indices of q are in range and agree with its size, and the slots that
\* hold an element are the size slots from the read index on, wrapping.
QueueIndexed(q) ==
    /\ q.size \in 0..q.N
    /\ q.r \in 0..(q.N - 1)
    /\ q.w \in 0..(q.N - 1)
    /\ q.w = (q.r + q.size) % q.N
    /\ \A i \in 0..(q.N - 1) :
           q.buf[i + 1] # Uninit <=> (i + q.N - q.r) % q.N < q.size

\* C24 (Queue index invariant): after any sequence of push, push_overwrite,
\* pop and peek, 0 <= size <= N, r and w are in 0..N-1, w = (r + size) mod N,
\* and the slots holding an element are exactly the size slots from r on,
\* wrapping; the slot a pop, a peek or a push_overwrite on a full queue reads
\* holds an element, which is what the call returns.
C24_QueueIndices ==
    [][ /\ QueueIndexed(queue)
        /\ QueueIndexed(queue')
        /\ last'.op \in {"pop", "peek", "push_overwrite"} /\ last'.ret # None =>
               /\ queue.buf[queue.r + 1] # Uninit
               /\ last'.ret = Some(queue.buf[queue.r + 1]) ]_vars

\* A pop has just left a queue of capacity 3 with two elements that wrap
\* around the end of the buffer.
C24_Witness ==
    /\ last.op = "pop"
    /\ last.ret # None
    /\ queue.N = 3
    /\ queue.size = 2
    /\ queue.r = 2
    /\ queue.w = 1
    /\ queue.buf[2] = Uninit

-----------------------------------------------------------------------------
(* The stack as a state machine.                                           *)
(*   stack : the Stack<T, N>: its capacity, buffer and size                *)
(*   hist  : the elements the caller holds as stacked, bottom first        *)
(*   last  : the last call, its argument and what it returned              *)

StackInit ==
    /\ stack \in {Stack_new(N) : N \in StackCapacities}
    /\ hist = <<>>
    /\ last = Returned("new", 0, None)
    /\ store = NoStore
    /\ live = Empty
    /\ placed = Empty
    /\ appended = <<>>
    /\ io = NoIo
    /\ queue = NoQueue

StackPush(item) ==
    \E o \in Stack_push(stack, item) :
        /\ stack' = o.s
        /\ hist' = IF o.ret = "Ok" THEN Append(hist, item) ELSE hist
        /\ last' = Returned("push", item, o.ret)
        /\ UNCHANGED <<store, live, placed, appended, io, queue>>

StackPop ==
    \E o \in Stack_pop(stack) :
        /\ stack' = o.s
        /\ hist' = IF hist = <<>> THEN hist ELSE SubSeq(hist, 1, Len(hist) - 1)
        /\ last' = Returned("pop", 0, o.ret)
        /\ UNCHANGED <<store, live, placed, appended, io, queue>>

StackPeek ==
    \E o \in Stack_peek(stack) :
        /\ stack' = o.s
        /\ last' = Returned("peek", 0, o.ret)
        /\ UNCHANGED <<hist, store, live, placed, appended, io, queue>>

AsSlice ==
    \E o \in Stack_as_slice(stack) :
        /\ stack' = o.s
        /\ last' = Returned("as_slice", 0, o.ret)
        /\ UNCHANGED <<hist, store, live, placed, appended, io, queue>>

StackNext ==
    \/ \E item \in Items : StackPush(item)
    \/ StackPop
    \/ StackPeek
    \/ AsSlice

SpecStack == StackInit /\ [][StackNext]_vars

-----------------------------------------------------------------------------
(* Properties of the stack (specification SpecStack)                       *)

\* The element on top of the caller's account, as an Option.
Newest == IF hist = <<>> THEN None ELSE Some(hist[Len(hist)])

\* C16 (Stack is LIFO with bounded capacity): pop returns the element pushed
\* last among those not popped yet, None when there is none; peek returns the
\* same element and leaves the stack as it is; as_slice is the elements held,
\* bottom to top, as many as size(); push succeeds while fewer than N
\* elements are held, and on a stack holding N elements it returns Err(Full)
\* and leaves the buffer and the size as they were.
C16_StackLifo ==
    [][ /\ last'.op = "pop" => last'.ret = Newest
        /\ last'.op = "peek" => last'.ret = Newest /\ stack' = stack
        /\ last'.op = "as_slice" =>
               /\ last'.ret = hist
               /\ Len(last'.ret) = stack.size
               /\ stack' = stack
        /\ last'.op = "push" =>
               IF Len(hist) = stack.N
               THEN last'.ret = "Full" /\ stack' = stack
               ELSE last'.ret = "Ok" /\ stack'.size = stack.size + 1 ]_vars

\* A pop has just returned the element pushed last, another element being
\* left on top of the stack.
C16_Witness ==
    /\ last.op = "pop"
    /\ last.ret # None
    /\ hist # <<>>
    /\ last.ret # Newest

====
